---- MODULE Spec2Model ----
(***************************************************************************)
(* Model of the price_chart web application:                               *)
(*   - apis.py    BaseQuerry (query_url, query_json), BCdeSession (query,  *)
(*                get_public_trade_history), Shapeshift.recent_tx          *)
(*   - models.py  the trade table, primary key tid                         *)
(*   - views.py   the data view: incremental ingestion and rendering       *)
(*                                                                         *)
(* Three specifications share the HTTP layer:                              *)
(*   Spec           the data view, one inbound request at a time           *)
(*   SpecSession    a long-lived BCdeSession queried repeatedly            *)
(*   SpecShapeshift calls of Shapeshift.recent_tx                          *)
(* views.py names the table Transaction and the client module api_call;   *)
(* they are the tid-keyed model of models.py and the classes of apis.py.   *)
(* The request signature (generate_api_signature) only fills headers and   *)
(* has no effect on the state modelled here; it is left out.               *)
(***************************************************************************)
EXTENDS Integers, Sequences, FiniteSets, Bags, TLC

----------------------------------------------------------------------------
\* Bounds of the model.
MaxTid == 1
MaxBatch == 2
MaxCredits == 4
MaxTransArg == 52

\* Program constants.
DefaultCredits == 20
LowCredits == 3
SleepSecs == 3
RangeEnd == 51
RenderLimit == 100
HttpOk == 200

\* Python's None where an integer is expected (Max('tid') of an empty table,
\* the default since_tid) and the absent since_tid parameter of a URL.
NoneTid == -1
\* A `date` field that float() rejects.
BadDate == -1

Tids == 0..MaxTid
Prices == {1, 2}
Timestamps == {1000}
TzOffsets == {0, 3600}
Credits == 0..MaxCredits
TransArgs == (0 - 2)..MaxTransArg
FieldNames == {"key", "sec", "csrfmiddlewaretoken"}

----------------------------------------------------------------------------
\* What the upstream server can send.

\* One element of the `trades` list of a trade-history answer.
TradeRecords == [tid : Tids, date : Timestamps, price : Prices, amount : {1}]
Malformed == [tid |-> 0, date |-> BadDate, price |-> 1, amount |-> 1]
UpstreamRecords == TradeRecords \cup {Malformed}

BoundedSeq(S, n) == UNION {[1..k -> S] : k \in 0..n}

\* A response body: unparsable text, the JSON object {}, a JSON object
\* without `credits`, or a trade-history object.
Body(form, c, trades) ==
    [form |-> form, credits |-> c, trading_pair |-> "btceur", trades |-> trades]
GarbageBody == Body("garbage", 0, <<>>)
EmptyBody == Body("empty", 0, <<>>)
NoCreditsBody == Body("nocredits", 0, <<>>)
NoBody == Body("none", 0, <<>>)

Bodies(n, cs) ==
    {GarbageBody, EmptyBody, NoCreditsBody}
        \cup {Body("history", c, t) : c \in cs, t \in BoundedSeq(UpstreamRecords, n)}

\* The outcome of requests.get: a transport error (an exception) or an HTTP
\* response with a status and a body.
NetErr == [kind |-> "neterr", status |-> 0, body |-> NoBody]
Http(s, b) == [kind |-> "http", status |-> s, body |-> b]
NoReply == [kind |-> "none", status |-> 0, body |-> NoBody]
Replies(n, cs) ==
    {NetErr, Http(500, GarbageBody)} \cup {Http(HttpOk, b) : b \in Bodies(n, cs)}

----------------------------------------------------------------------------
VARIABLES
    store,          \* the committed trade table: a bag of rows
    txn,            \* the table as seen inside the open transaction
    store0,         \* history: the table when the current view call began
    tzOffset,       \* the server process's local UTC offset
    pc,             \* position of the top-level caller
    post,           \* request.POST of the current view call
    new_trades,     \* views.data: the parsed answer being inserted
    idx,            \* views.data: position in new_trades['trades']
    outcome,        \* how the last view call ended, and its context
    hasSession,     \* a BCdeSession object exists
    api_credits,    \* BCdeSession.api_credits
    q_pc,           \* position inside BCdeSession.query
    q_url,          \* the since_tid parameter of the URL being queried
    elapsed,        \* time units since the current call was entered
    sent,           \* HTTP requests issued during the current call
    reply,          \* what requests.get produced for the current call
    result,         \* what the current API call returned (or raised)
    startCredits,   \* history: api_credits when the current query began
    initCredits,    \* history: the api_credits the session was built with
    serverCredits,  \* history: `credits` of the last successful answer
    max_trans       \* argument of the current recent_tx call

vars == <<store, txn, store0, tzOffset, pc, post, new_trades, idx, outcome,
          hasSession, api_credits, q_pc, q_url, elapsed, sent, reply, result,
          startCredits, initCredits, serverCredits, max_trans>>

dbVars == <<store, txn, store0, tzOffset, post, new_trades, idx, outcome>>
sessVars == <<hasSession, api_credits, startCredits, initCredits, serverCredits>>

----------------------------------------------------------------------------
\* apis.py: BaseQuerry

None == [tag |-> "none", value |-> NoBody]
Raised == [tag |-> "raise", value |-> NoBody]
Value(b) == [tag |-> "value", value |-> b]

\* query_url: requests.get may raise; a status other than 200 gives None.
query_url(r) ==
    IF r.kind = "neterr" THEN Raised
    ELSE IF r.status # HttpOk THEN None
    ELSE Value(r.body)

\* query_json: None stays None, an unparsable body gives None; an exception
\* of query_url is outside the try block and propagates.
query_json(r) ==
    LET response == query_url(r)
    IN  IF response.tag # "value" THEN response
        ELSE IF response.value.form = "garbage" THEN None
        ELSE response

\* Python truth value of a parsed JSON document.
Truthy(b) == b.form \notin {"empty", "none", "garbage"}
HasCredits(b) == b.form = "history"

----------------------------------------------------------------------------
\* apis.py: BCdeSession

\* History marker: no successful answer yet.
Unset == 0 - 1

\* __init__: the counter starts at the caller-supplied value.
BCdeSessionInit(c) ==
    /\ hasSession' = TRUE
    /\ api_credits' = c
    /\ initCredits' = c
    /\ serverCredits' = Unset

\* query, before the request: sleep(3) when fewer than 3 credits are left.
CooldownOffByOne(c) == IF c <= LowCredits THEN SleepSecs ELSE 0
Cooldown(c) == IF c < LowCredits THEN SleepSecs ELSE 0

\* query, after query_json: `if response: self.api_credits = response["credits"]`
\* (a KeyError when the parsed object carries no credits), then return.
QueryReturn(r) ==
    LET response == query_json(r)
    IN  IF response.tag = "value" /\ Truthy(response.value)
               /\ ~HasCredits(response.value)
        THEN Raised
        ELSE response

CreditsAfterDecrement(old, r) ==
    LET response == query_json(r)
    IN  IF response.tag = "value" /\ Truthy(response.value)
               /\ HasCredits(response.value)
        THEN IF old > 0 THEN old - 1 ELSE 0
        ELSE old
CreditsAfter(old, r) ==
    LET response == query_json(r)
    IN  IF response.tag = "value" /\ Truthy(response.value)
               /\ HasCredits(response.value)
        THEN response.value.credits
        ELSE old

\* get_public_trade_history: `if since_tid:` adds the since_tid parameter,
\* so None and 0 both give a URL without it.
SinceParamNotNone(since_tid) == since_tid
SinceParam(since_tid) ==
    IF since_tid = NoneTid \/ since_tid = 0 THEN NoneTid ELSE since_tid

\* get_public_trade_history builds the URL and enters query.
get_public_trade_history(since_tid, credits) ==
    /\ q_pc' = "entered"
    /\ q_url' = SinceParam(since_tid)
    /\ elapsed' = 0
    /\ sent' = <<>>
    /\ reply' = NoReply
    /\ result' = None
    /\ startCredits' = credits

QueryThrottle ==
    /\ q_pc = "entered"
    /\ elapsed' = elapsed + Cooldown(api_credits)
    /\ q_pc' = "ready"
    /\ UNCHANGED <<dbVars, sessVars, pc, q_url, sent, reply, result, max_trans>>

QuerySend ==
    /\ q_pc = "ready"
    /\ sent' = Append(sent, [api |-> "bitcoin.de", param |-> q_url, at |-> elapsed])
    /\ q_pc' = "inflight"
    /\ UNCHANGED <<dbVars, sessVars, pc, q_url, elapsed, reply, result, max_trans>>

IsSuccess(r) == r.kind = "http" /\ r.status = HttpOk /\ r.body.form = "history"

QueryReceive(r) ==
    /\ q_pc = "inflight"
    /\ reply' = r
    /\ result' = QueryReturn(r)
    /\ api_credits' = CreditsAfter(api_credits, r)
    /\ serverCredits' = IF IsSuccess(r) THEN r.body.credits ELSE serverCredits
    /\ q_pc' = "returned"
    /\ UNCHANGED <<dbVars, hasSession, startCredits, initCredits, pc, q_url,
                   elapsed, sent, max_trans>>

----------------------------------------------------------------------------
\* A long-lived session used directly.

NewSession(c) ==
    /\ pc = "idle"
    /\ q_pc \in {"none", "returned"}
    /\ BCdeSessionInit(c)
    /\ q_pc' = "none"
    /\ q_url' = NoneTid
    /\ elapsed' = 0
    /\ sent' = <<>>
    /\ reply' = NoReply
    /\ result' = None
    /\ startCredits' = c
    /\ UNCHANGED <<dbVars, pc, max_trans>>

SessionCall(since_tid) ==
    /\ pc = "idle"
    /\ hasSession
    /\ q_pc \in {"none", "returned"}
    /\ get_public_trade_history(since_tid, api_credits)
    /\ UNCHANGED <<dbVars, hasSession, api_credits, initCredits, serverCredits,
                   pc, max_trans>>

----------------------------------------------------------------------------
\* models.py: the trade table.  A row is a record; the table is a bag of
\* rows, so a second row with the same content would show.

Ids(table) == {r.tid : r \in BagToSet(table)}
RowsOf(table, t) == {r \in BagToSet(table) : r.tid = t}
\* Number of rows stored under id t.
CountOf(table, t) ==
    LET hit == RowsOf(table, t)
    IN  BagCardinality([r \in hit |-> table[r]])
SetMax(S) == CHOOSE x \in S : \A y \in S : y <= x

\* Model.save() with the primary key set: UPDATE the row with that tid and,
\* when no row was updated, INSERT.
SaveInsertOnly(table, row) == table (+) SetToBag({row})
SaveSkipExisting(table, row) ==
    IF RowsOf(table, row.tid) # {} THEN table ELSE table (+) SetToBag({row})
Save(table, row) ==
    IF RowsOf(table, row.tid) # {}
    THEN LET keep == {r \in BagToSet(table) : r.tid # row.tid}
         IN  [r \in keep |-> table[r]]
                 (+) [r \in {row} |-> CountOf(table, row.tid)]
    ELSE table (+) SetToBag({row})

\* objects.order_by('tid'), as a list.
RECURSIVE OrderByTid(_)
OrderByTid(table) ==
    IF BagToSet(table) = {} THEN <<>>
    ELSE LET r == CHOOSE x \in BagToSet(table) :
                      \A y \in BagToSet(table) : x.tid <= y.tid
         IN  <<r>> \o OrderByTid(table (-) SetToBag({r}))

\* data_list[-100:]
LastN(s, n) == IF Len(s) <= n THEN s ELSE SubSeq(s, Len(s) - n + 1, Len(s))

----------------------------------------------------------------------------
\* views.py: data

\* The forms a client can submit: any subset of the fields, each empty or
\* filled in.
Posts == UNION {[F -> {"", "x"}] : F \in SUBSET FieldNames}

\* `request.POST and request.POST['key'] and request.POST['sec']`: an empty
\* QueryDict is false; indexing a missing field raises.
PostGuard(p) ==
    IF DOMAIN p = {} THEN "skip"
    ELSE IF "key" \notin DOMAIN p THEN "raise"
    ELSE IF p["key"] = "" THEN "skip"
    ELSE IF "sec" \notin DOMAIN p THEN "raise"
    ELSE IF p["sec"] = "" THEN "skip"
    ELSE "ingest"

\* aggregate(Max('tid'))['tid__max']: None for an empty table.  The returned
\* dict is never empty, so the 0 assigned before it is always replaced.
MaxTidAgg(table) == IF Ids(table) = {} THEN NoneTid ELSE SetMax(Ids(table))

\* The row built from one record of the answer.  fromtimestamp() gives the
\* local wall-clock time, which replace(tzinfo=utc) then labels as UTC.
Transaction(row, pair, off) ==
    [tid |-> row.tid, date |-> row.date + off, price |-> row.price,
     amount |-> row.amount, trading_pair |-> pair]
\* float(row['date']) raises on a record it cannot read.
RowRaises(row) == row.date = BadDate

\* Leaving `with transaction.atomic()`: roll back when the block raised,
\* commit otherwise.
AtomicExitAlwaysCommit(committed, working, failed) == working
AtomicExit(committed, working, failed) ==
    IF failed THEN committed ELSE working

NoOutcome == [status |-> "none", num_total |-> 0, data |-> <<>>]
RaisedOutcome == [status |-> "raised", num_total |-> 0, data |-> <<>>]
\* The context handed to render().
Rendered(table) ==
    LET data_list == OrderByTid(table)
    IN  [status |-> "rendered", num_total |-> Len(data_list),
         data |-> LastN(data_list, RenderLimit)]

\* An inbound request: the guard, then for a full form the session, the
\* cursor and the call of get_public_trade_history.
DataRequest(p) ==
    /\ pc \in {"idle", "done"}
    /\ post' = p
    /\ store0' = store
    /\ new_trades' = NoBody
    /\ idx' = 0
    /\ IF PostGuard(p) = "ingest"
       THEN /\ BCdeSessionInit(DefaultCredits)
            /\ get_public_trade_history(MaxTidAgg(store), DefaultCredits)
            /\ pc' = "fetch"
            /\ outcome' = NoOutcome
       ELSE /\ q_pc' = "none"
            /\ q_url' = NoneTid
            /\ elapsed' = 0
            /\ sent' = <<>>
            /\ reply' = NoReply
            /\ result' = None
            /\ pc' = IF PostGuard(p) = "raise" THEN "done" ELSE "render"
            /\ outcome' = IF PostGuard(p) = "raise" THEN RaisedOutcome ELSE NoOutcome
            /\ UNCHANGED sessVars
    /\ UNCHANGED <<store, txn, tzOffset, max_trans>>

\* get_public_trade_history has returned (or raised).  The session object is
\* a local of the view and is not used again.
DataAfterFetch ==
    /\ pc = "fetch"
    /\ q_pc = "returned"
    /\ q_pc' = "none"
    /\ hasSession' = FALSE
    /\ api_credits' = 0
    /\ initCredits' = 0
    /\ startCredits' = 0
    /\ serverCredits' = Unset
    /\ IF result.tag = "raise"
       THEN /\ pc' = "done"
            /\ outcome' = RaisedOutcome
            /\ UNCHANGED <<new_trades, idx, txn>>
       ELSE IF result.tag = "value" /\ Truthy(result.value)
       THEN /\ pc' = "insert"
            /\ new_trades' = result.value
            /\ idx' = 1
            /\ txn' = store
            /\ UNCHANGED outcome
       ELSE /\ pc' = "render"
            /\ UNCHANGED <<new_trades, idx, txn, outcome>>
    /\ UNCHANGED <<store, store0, tzOffset, post, q_url, elapsed, sent, reply,
                   result, max_trans>>

\* One turn of the loop inside the atomic block.  A record that raises ends
\* the block and the view.
DataInsert ==
    /\ pc = "insert"
    /\ idx <= Len(new_trades.trades)
    /\ LET row == new_trades.trades[idx]
       IN  IF RowRaises(row)
           THEN /\ store' = AtomicExit(store, txn, TRUE)
                /\ txn' = EmptyBag
                /\ pc' = "done"
                /\ outcome' = RaisedOutcome
                /\ UNCHANGED idx
           ELSE /\ txn' = Save(txn, Transaction(row, new_trades.trading_pair, tzOffset))
                /\ idx' = idx + 1
                /\ UNCHANGED <<store, pc, outcome>>
    /\ UNCHANGED <<store0, tzOffset, post, new_trades, sessVars, q_pc, q_url,
                   elapsed, sent, reply, result, max_trans>>

\* The loop is over: the atomic block is left normally.
DataCommit ==
    /\ pc = "insert"
    /\ idx > Len(new_trades.trades)
    /\ store' = AtomicExit(store, txn, FALSE)
    /\ txn' = EmptyBag
    /\ pc' = "render"
    /\ UNCHANGED <<store0, tzOffset, post, new_trades, idx, outcome, sessVars,
                   q_pc, q_url, elapsed, sent, reply, result, max_trans>>

DataRender ==
    /\ pc = "render"
    /\ outcome' = Rendered(store)
    /\ pc' = "done"
    /\ UNCHANGED <<store, txn, store0, tzOffset, post, new_trades, idx, sessVars,
                   q_pc, q_url, elapsed, sent, reply, result, max_trans>>

----------------------------------------------------------------------------
\* apis.py: Shapeshift.recent_tx

\* `max_trans not in range(51)`
InRange(m) == m \in 0..(RangeEnd - 1)

RecentTx(m) ==
    /\ pc \in {"idle", "done"}
    /\ max_trans' = m
    /\ elapsed' = 0
    /\ reply' = NoReply
    /\ result' = None
    /\ IF InRange(m)
       THEN /\ sent' = <<[api |-> "shapeshift", param |-> m, at |-> 0]>>
            /\ pc' = "recent_tx"
       ELSE /\ sent' = <<>>
            /\ pc' = "done"
    /\ UNCHANGED <<dbVars, sessVars, q_pc, q_url>>

RecentTxReceive(r) ==
    /\ pc = "recent_tx"
    /\ reply' = r
    /\ result' = query_json(r)
    /\ pc' = "done"
    /\ UNCHANGED <<dbVars, sessVars, q_pc, q_url, elapsed, sent, max_trans>>

----------------------------------------------------------------------------
\* Specifications

Init ==
    /\ store = EmptyBag
    /\ txn = EmptyBag
    /\ store0 = EmptyBag
    /\ tzOffset \in TzOffsets
    /\ pc = "idle"
    /\ post = <<>>
    /\ new_trades = NoBody
    /\ idx = 0
    /\ outcome = NoOutcome
    /\ hasSession = FALSE
    /\ api_credits = 0
    /\ q_pc = "none"
    /\ q_url = NoneTid
    /\ elapsed = 0
    /\ sent = <<>>
    /\ reply = NoReply
    /\ result = None
    /\ startCredits = 0
    /\ initCredits = 0
    /\ serverCredits = Unset
    /\ max_trans = 0

\* The data view.  The view never reads the counter of its session, so one
\* `credits` value stands for all.
ViewReplies == Replies(MaxBatch, {MaxCredits})
Next ==
    \/ \E p \in Posts : DataRequest(p)
    \/ QueryThrottle
    \/ QuerySend
    \/ \E r \in ViewReplies : QueryReceive(r)
    \/ DataAfterFetch
    \/ DataInsert
    \/ DataCommit
    \/ DataRender
Spec == Init /\ [][Next]_vars

\* A session built with any counter and queried again and again.
SessionReplies == Replies(0, Credits \cup {DefaultCredits})
NextSession ==
    \/ \E c \in Credits \cup {DefaultCredits} : NewSession(c)
    \/ \E t \in Tids \cup {NoneTid} : SessionCall(t)
    \/ QueryThrottle
    \/ QuerySend
    \/ \E r \in SessionReplies : QueryReceive(r)
SpecSession == Init /\ [][NextSession]_vars

\* recent_tx called with any integer.
ShapeshiftReplies == Replies(0, {0})
NextShapeshift ==
    \/ \E m \in TransArgs : RecentTx(m)
    \/ \E r \in ShapeshiftReplies : RecentTxReceive(r)
SpecShapeshift == Init /\ [][NextShapeshift]_vars

----------------------------------------------------------------------------
\* Properties

\* The ids of the batch the view is inserting or has inserted.
BatchIds == {new_trades.trades[i].tid : i \in 1..Len(new_trades.trades)}
\* The view call got a batch, inserted it and rendered.
Ingested ==
    pc = "done" /\ outcome.status = "rendered" /\ new_trades.form = "history"
\* The fetch failed: transport error, non-200 status or unparsable body.
FetchFailed(r) ==
    \/ r.kind = "neterr"
    \/ r.kind = "http" /\ (r.status # HttpOk \/ r.body.form = "garbage")
\* A form field is missing or empty.
Absent(p, f) == f \notin DOMAIN p \/ p[f] = ""
\* The cursor a view call must use, given the table it started from.
Cursor(table) ==
    IF Ids(table) = {} \/ SetMax(Ids(table)) = 0 THEN NoneTid
    ELSE SetMax(Ids(table))
\* The positions of the current batch that carry id t.
Hits(t) == {i \in 1..Len(new_trades.trades) : new_trades.trades[i].tid = t}

\* C1: after a successful ingestion the stored ids are the previous ids
\* united with the ids of the batch, one row per id, and the largest stored
\* id is the largest id of the two.
C1_IngestUnion ==
    Ingested =>
        /\ Ids(store) = Ids(store0) \cup BatchIds
        /\ \A t \in Ids(store) : CountOf(store, t) = 1
        /\ Ids(store) # {} => SetMax(Ids(store)) = SetMax(Ids(store0) \cup BatchIds)
\* A batch redelivered a stored id together with a new one.
C1_Witness ==
    /\ Ingested
    /\ BatchIds \cap Ids(store0) # {}
    /\ BatchIds \ Ids(store0) # {}

\* C2: a transport error, a non-200 status and an unparsable body each make
\* query return None, without an exception.
C2_FailuresNonFatal ==
    (q_pc = "returned" /\ FetchFailed(reply)) => result = None

C4_AtomicBatch ==
    /\ pc \in {"fetch", "insert"} => store = store0
    /\ (pc = "done" /\ outcome.status = "raised") => store = store0
\* A batch failed after a new row had been saved inside the transaction.
C4_Witness ==
    /\ pc = "done"
    /\ outcome.status = "raised"
    /\ new_trades.form = "history"
    /\ idx > 1
    /\ new_trades.trades[1].tid \notin Ids(store0)

\* C5: a query entered with fewer than 3 credits issues its one request 3
\* time units after entry, a query entered with 3 or more issues it at once;
\* nothing is sent before the cooldown is over.
C5_CooldownBeforeRequest ==
    /\ q_pc \in {"entered", "ready"} => sent = <<>>
    /\ (q_pc = "ready" /\ startCredits < 3) => elapsed >= 3
    /\ q_pc \in {"inflight", "returned"} =>
           /\ Len(sent) = 1
           /\ sent[1].at = (IF startCredits < 3 THEN 3 ELSE 0)
\* A request went out after the cooldown.
C5_Witness ==
    /\ q_pc = "inflight"
    /\ startCredits < 3
    /\ Len(sent) = 1
    /\ sent[1].at = 3

\* C6: a failed fetch yields None and the view leaves the table as it was.
C6_FailedFetchNoOp ==
    (pc = "done" /\ FetchFailed(reply)) => (result = None /\ store = store0)

\* C7 as stated: a stored row stays in the table, unchanged, in every later
\* state.
C7_RowsNeverChange ==
    [][\A r \in BagToSet(store) : r \in BagToSet(store')]_vars
\* C7: a stored id is never removed and keeps exactly one row; the row keeps
\* its fields until a committed batch redelivers its id, and then holds the
\* values of the last record of that batch with that id.
C7_RowsKeptOrRedelivered ==
    [][\A r \in BagToSet(store) :
          IF pc = "insert" /\ pc' = "render" /\ Hits(r.tid) # {}
          THEN RowsOf(store', r.tid) =
                   {Transaction(new_trades.trades[SetMax(Hits(r.tid))],
                                new_trades.trading_pair, tzOffset)}
               /\ CountOf(store', r.tid) = 1
          ELSE r \in BagToSet(store') /\ CountOf(store', r.tid) = 1]_vars
\* A redelivered id now carries other values than before.
C7_Witness ==
    /\ Ingested
    /\ \E r \in BagToSet(store0) : r.tid \in BatchIds /\ r \notin BagToSet(store)

\* C8: without `key` or without `sec` the view makes no request, writes
\* nothing and renders.
C8_SkipWithoutCredentials ==
    (pc = "done" /\ (Absent(post, "key") \/ Absent(post, "sec"))) =>
        /\ outcome.status = "rendered"
        /\ sent = <<>>
        /\ store = store0

\* C9: the request of a view call carries no since_tid when the table it
\* started from is empty or has maximum id 0, and carries exactly the
\* maximum stored id otherwise.
C9_CursorIsMaxTid ==
    sent # <<>> =>
        /\ Len(sent) = 1
        /\ sent[1].param = Cursor(store0)
\* A request carried the largest of several stored ids.
C9_Witness ==
    /\ sent # <<>>
    /\ Cardinality(Ids(store0)) >= 2
    /\ sent[1].param = SetMax(Ids(store0))

\* C10: recent_tx sends nothing and returns None for max_trans outside
\* [1, 50], and sends its request for max_trans in [1, 50].
C10_ValidatesRange ==
    pc \in {"recent_tx", "done"} =>
        IF max_trans \in 1..50
        THEN Len(sent) = 1
        ELSE sent = <<>> /\ result = None

====
